---- MODULE Spec2Model ----
(***************************************************************************)
(* A model of the SMTP gateway of om-surushe/SMTP-Server.                  *)
(*                                                                         *)
(*   Spec      the HTTP submission/status API of src/src/api.py and its    *)
(*             in-memory status store, run by one asyncio event loop       *)
(*   SpecStore the three status-store functions of src/src/api.py called   *)
(*             with arguments drawn from bounded sets                      *)
(*   SpecStoreClock  SpecStore under a wall clock that may be set back     *)
(*   SpecSMTP  the SMTP server of src/src/server.py: run_servers/start,   *)
(*             and one client session served by the aiosmtpd controller    *)
(*             the code configures                                         *)
(*   SpecAuth  Authenticator.__call__ of src/src/server.py called with     *)
(*             credentials drawn from bounded sets                         *)
(*   SpecParse EmailHandler._get_message_content of src/src/handlers.py   *)
(*             run on messages drawn from bounded sets                     *)
(*   SpecForward the three forwarders (api.py send_email, handlers.py      *)
(*             _send_via_gmail, utils.py send_email), one smtplib call a   *)
(*             step                                                        *)
(*   SpecForwardLive  SpecForward with a forwarder that has begun running  *)
(*             on (weak fairness)                                          *)
(*   SpecHandle EmailHandler.handle_message of src/src/handlers.py from    *)
(*             the header parsing to the forward                           *)
(***************************************************************************)
EXTENDS Integers, Sequences, FiniteSets, TLC

\* ------------------------------------------------------------------ bounds
\* number of POST /send-email requests of one run
MaxRequests == 2
\* datetime.utcnow() readings are 0..MaxClock
MaxClock == 1
\* number of create_email_status calls of one SpecStore run
MaxCreates == 2
\* number of status-store calls of one SpecStore run
MaxCalls == 4
\* Config.MAX_MESSAGE_SIZE in bytes (config.py:35; any positive value)
MaxMessageSize == 2
\* RCPT TO commands accepted in one transaction
MaxRcpt == 2
\* messages one session hands to the handler
MaxHandled == 2
\* failed AUTH attempts of one session
MaxAuthFailures == 2
\* length in bytes of a login or a password presented to the Authenticator
MaxLen == 2
\* parts of a multipart message
MaxParts == 2
\* forwards of one SpecForward run
MaxForwards == 1
\* connections one forward may attempt before the model stops following it
MaxAttempts == 2

\* ------------------------------------------------------------------ values
\* Python's None where a string is expected (EmailStatus.error, a reply)
None == "None"
\* Optional[Dict] values: None, the empty dict, or a dict with entries
DetailsNone == [kind |-> "None", size |-> 0]
EmptyDict == [kind |-> "dict", size |-> 0]
\* api.py:209-213, the details send_email records with 'sent'
SentDetails(to, subject, ts) ==
    [kind |-> "dict", size |-> 3, recipients |-> to, subject |-> subject,
     timestamp |-> ts]
\* `if error:` - None and '' are falsy
TruthyStr(s) == s # None /\ s # ""
\* `if details:` - None and {} are falsy
TruthyDict(d) == d.kind = "dict" /\ d.size > 0

\* Python str values are sequences of code points, bytes values sequences
\* of byte values; Optional[str] is StrNone or Some(s)
StrNone == [some |-> FALSE, val |-> <<>>]
Some(s) == [some |-> TRUE, val |-> s]

\* bytes.decode(): UTF-8, errors='strict'. One-, two- and three-byte forms
\* (the lead bytes 240..244 of the four-byte form are in no alphabet of the
\* model); anything else raises UnicodeDecodeError
RECURSIVE Utf8Decode(_)
Utf8Decode(b) ==
    IF b = <<>> THEN [ok |-> TRUE, text |-> <<>>]
    ELSE IF b[1] < 128
    THEN LET rest == Utf8Decode(Tail(b))
         IN [ok |-> rest.ok, text |-> IF rest.ok THEN <<b[1]>> \o rest.text
                                      ELSE <<>>]
    ELSE IF /\ b[1] \in 194..223 /\ Len(b) >= 2 /\ b[2] \in 128..191
    THEN LET rest == Utf8Decode(SubSeq(b, 3, Len(b)))
             cp == (b[1] - 192) * 64 + (b[2] - 128)
         IN [ok |-> rest.ok, text |-> IF rest.ok THEN <<cp>> \o rest.text
                                      ELSE <<>>]
    ELSE IF /\ b[1] \in 224..239 /\ Len(b) >= 3
            /\ b[2] \in 128..191 /\ b[3] \in 128..191
            /\ (b[1] = 224 => b[2] >= 160) /\ (b[1] = 237 => b[2] <= 159)
    THEN LET rest == Utf8Decode(SubSeq(b, 4, Len(b)))
             cp == (b[1] - 224) * 4096 + (b[2] - 128) * 64 + (b[3] - 128)
         IN [ok |-> rest.ok, text |-> IF rest.ok THEN <<cp>> \o rest.text
                                      ELSE <<>>]
    ELSE [ok |-> FALSE, text |-> <<>>]

\* bytes.decode(errors='replace'): as Utf8Decode, with U+FFFD (65533) for a
\* byte that cannot be decoded
RECURSIVE Utf8DecodeReplace(_)
Utf8DecodeReplace(b) ==
    IF b = <<>> THEN <<>>
    ELSE IF Utf8Decode(<<b[1]>>).ok
    THEN <<b[1]>> \o Utf8DecodeReplace(Tail(b))
    ELSE IF Len(b) >= 2 /\ Utf8Decode(SubSeq(b, 1, 2)).ok
    THEN Utf8Decode(SubSeq(b, 1, 2)).text \o Utf8DecodeReplace(SubSeq(b, 3, Len(b)))
    ELSE IF Len(b) >= 3 /\ Utf8Decode(SubSeq(b, 1, 3)).ok
    THEN Utf8Decode(SubSeq(b, 1, 3)).text \o Utf8DecodeReplace(SubSeq(b, 4, Len(b)))
    ELSE <<65533>> \o Utf8DecodeReplace(Tail(b))

\* all byte strings of length 0..n over the byte values of `alphabet`
BytesUpTo(alphabet, n) == UNION {[1..k -> alphabet] : k \in 0..n}

\* the Literal of EmailStatus.status
StatusLiteral == {"queued", "sending", "sent", "delivered", "failed"}

\* request inputs (EmailRequest.to, EmailRequest.subject)
RecipientLists == {<<"b@y.com">>, <<"b@y.com", "c@z.com">>}
Subjects == {"Test"}
\* str(e) of the exceptions the forward raises
ErrorTexts == {"Connection refused", "(535, b'auth failed')"}

Senders == 1..MaxRequests
Reader == MaxRequests + 1
Tasks == Senders \cup {Reader}

VARIABLES
    email_status_store, \* api.py:18  message_id -> EmailStatus object
    minted,             \* number of uuid4() values drawn so far
    clock,              \* the wall clock datetime.utcnow() reads
    running,            \* the tasks the event loop is in the middle of running
    pc,                 \* per task: its position in the handler
    req,                \* per sender: the EmailRequest
    local,              \* per task: message_id, the update call in progress,
                        \*   the exception caught, the value create returned
    resp,               \* per task: the HTTP response
    lastcall,           \* SpecStore: the last store call and what it returned
    ncalls,             \* SpecStore: number of store calls made
    config,             \* config.py: the Config the process was started with
    relay,              \* the upstream relay: what a forward to it would meet
    mainpc,             \* server.py: position of run_servers / SMTPServer.start
    controller,         \* server.py:56, 90  self.controller and its state
    sess,               \* the aiosmtpd session of the one client connection
    handled,            \* messages handed to SMTPServerHandler (handle_DATA)
    forwards,           \* calls of EmailHandler._send_via_gmail
    authcall,           \* SpecAuth: the last Authenticator call and its result
    parse,              \* SpecParse: the message and the locals of
                        \*   _get_message_content
    fwd,                \* SpecForward: the forward in progress: the locals
                        \*   of the forwarder and what the relay has seen
    hm                  \* SpecHandle: the message and the locals of
                        \*   handle_message

apivars == <<email_status_store, minted, clock, running, pc, req, local, resp>>
smtpvars == <<config, relay, mainpc, controller, sess, handled, forwards>>
unitvars == <<authcall, parse, fwd, hm>>
vars == <<email_status_store, minted, clock, running, pc, req, local, resp,
          lastcall, ncalls, config, relay, mainpc, controller, sess, handled,
          forwards, authcall, parse, fwd, hm>>

\* ------------------------------------------------------------ status store
\* api.py:46  message_id = f"{uuid.uuid4().hex}@{Config.HOST}"; uuid4 is
\* modelled as a source of values never drawn before (the n-th draw is n)
NewMessageIdConst(n) == 1
NewMessageId(n) == n + 1

\* api.py:47-52  EmailStatus(status='queued', ...); created_at and updated_at
\* default to datetime.utcnow()
NewEmailStatus(message_id, to, subject, now) ==
    [status |-> "queued", message_id |-> message_id, to |-> to,
     subject |-> subject, created_at |-> now, updated_at |-> now,
     details |-> DetailsNone, error |-> None]

\* api.py:53  email_status_store[message_id] = status_obj
StoreInsert(store, obj) ==
    [id \in DOMAIN store \cup {obj.message_id} |->
        IF id = obj.message_id THEN obj ELSE store[id]]

\* api.py:44-54 create_email_status: the store after the call
create_email_status(store, n, to, subject, now) ==
    StoreInsert(store, NewEmailStatus(NewMessageId(n), to, subject, now))

\* api.py:36  email_status.status = status
SetStatus(store, id, status) == [store EXCEPT ![id].status = status]
\* api.py:37  email_status.updated_at = datetime.utcnow()
SetUpdatedAt(store, id, now) == [store EXCEPT ![id].updated_at = now]
\* api.py:38-39  if error: email_status.error = error
SetErrorNever(store, id, error) == store
SetError(store, id, error) ==
    IF TruthyStr(error) THEN [store EXCEPT ![id].error = error] ELSE store
\* api.py:40-41  if details: email_status.details = details
SetDetails(store, id, details) ==
    IF TruthyDict(details) THEN [store EXCEPT ![id].details = details]
    ELSE store

\* api.py:32  if message_id not in email_status_store
Known(store, id) == id \in DOMAIN store

\* api.py:30-42 update_email_status: the store after the call
update_email_status_creates(store, id, status, error, details, now) ==
    LET base == IF Known(store, id) THEN store
                ELSE StoreInsert(store, NewEmailStatus(id, <<>>, "", now))
    IN SetDetails(SetError(SetUpdatedAt(SetStatus(base, id, status), id, now),
                           id, error), id, details)
update_email_status(store, id, status, error, details, now) ==
    IF ~Known(store, id) THEN store
    ELSE SetDetails(SetError(SetUpdatedAt(SetStatus(store, id, status), id, now),
                             id, error), id, details)
\* api.py:33, 42  what update_email_status returns: None, or the object
\* (a reference to it: the id it is stored under)
update_email_status_result(store, id) ==
    IF ~Known(store, id) THEN [found |-> FALSE, ref |-> 0]
    ELSE [found |-> TRUE, ref |-> id]


\* ------------------------------------------------- the HTTP API (api.py)
\* api.py:129, 233  both endpoints are `async def` and their bodies hold no
\* await: the event loop runs a handler from its first statement to its
\* return before it runs anything else
MayRunThreaded(t) == TRUE
MayRun(t) == running \subseteq {t}

NoCall == [status |-> None, error |-> None, details |-> DetailsNone,
           next |-> "idle", now |-> 0]
NoHeld == [ref |-> 0, seen |-> NewEmailStatus(0, <<>>, "", 0)]
NoLocal == [message_id |-> 0, call |-> NoCall, exc |-> None, held |-> NoHeld]
NoReq == [to |-> <<>>, subject |-> ""]
\* api.py:67-70, 215-223  status is the "status" of the EmailResponse
NoResp ==
    [code |-> 0, message_id |-> 0, status |-> None,
     body |-> NewEmailStatus(0, <<>>, "", 0)]

\* a call update_email_status(message_id, status, error, details) that
\* continues at `next` when it returns
Call(status, error, details, next) ==
    [status |-> status, error |-> error, details |-> details, next |-> next,
     now |-> 0]

\* config.py:27-35 with authentication and TLS off and no credentials in the
\* environment
DefaultConfig ==
    [ENABLE_AUTH |-> FALSE, ENABLE_TLS |-> FALSE, SMTP_USERNAME |-> StrNone,
     SMTP_PASSWORD |-> StrNone, MAX_MESSAGE_SIZE |-> MaxMessageSize]
\* failed_auths counts the AUTH attempts of the session that failed
NoSession ==
    [conn |-> "none", helo |-> FALSE, authenticated |-> FALSE,
     mail_from |-> FALSE, rcpt_tos |-> 0, cmd |-> None, size |-> 0,
     reply |-> None, failed_auths |-> 0]

\* server.py:27, 30-31  auth_data: a LoginPassword(login, password) of bytes,
\* or an object of another type
LoginPassword(login, password) ==
    [kind |-> "LoginPassword", login |-> login, password |-> password]
OtherAuthData == [kind |-> "other", login |-> <<>>, password |-> <<>>]
\* aiosmtpd AuthResult(success=..., handled=True by default); raised: the
\* call raised instead of returning
AuthResult(success, marked_handled) ==
    [success |-> success, handled |-> marked_handled, raised |-> FALSE]
Raised == [success |-> FALSE, handled |-> FALSE, raised |-> TRUE]
NoAuthCall ==
    [called |-> FALSE, auth_data |-> OtherAuthData,
     result |-> AuthResult(FALSE, FALSE)]

\* handlers.py:124-125  text_content = None, html_content = None, of a
\* message not yet given; text_from, html_from and skipped record which part
\* (in document order, 0 for none) filled a body and which parts the loop
\* skipped
NoParse ==
    [state |-> "idle", msg |-> [multipart |-> FALSE, parts |-> <<>>],
     pos |-> 0, text_content |-> StrNone, html_content |-> StrNone,
     text_from |-> 0, html_from |-> 0, skipped |-> {}]

\* no forward begun: the forwarder, its arguments, the smtplib calls made on
\* the relay connection (wire), the envelope recipients handed to the relay,
\* whether the connection is open, the connections attempted, the text of
\* the exception raised, the outcome, the status record of the message
NoMessage == [to |-> <<>>, cc |-> <<>>, bcc |-> <<>>, resent_to |-> StrNone]
NoForward ==
    [impl |-> "none", pc |-> "idle", use_tls |-> FALSE, use_ssl |-> FALSE,
     creds |-> FALSE, msg |-> NoMessage, wire |-> <<>>, rcpts |-> <<>>,
     open |-> FALSE, attempts |-> 0, exc |-> None, result |-> "none",
     message_id |-> 0, begun |-> 0, body |-> "hi"]

\* handlers.py:78-80  the value msg.get(name, '') returns for an address
\* header, as its addresses and the encoded word (=?charset?q?text?=) the
\* parser of the message left undecoded in it, if any: NoWord for none
NoWord == [charset |-> "none", payload |-> <<>>]
EmptyHeader == [addrs |-> <<>>, word |-> NoWord]
\* handlers.py:61, 76-99  handle_message not yet called: the message, the
\* address lists, the bodies, forward_success, and the header whose parsing
\* raised
NoHandle ==
    [pc |-> "idle",
     msg |-> [to |-> EmptyHeader, cc |-> EmptyHeader, bcc |-> EmptyHeader,
              body |-> [multipart |-> FALSE, parts |-> <<>>]],
     to_list |-> <<>>, cc_list |-> <<>>, bcc_list |-> <<>>,
     text |-> StrNone, html |-> StrNone, forward_success |-> FALSE,
     raised_at |-> None]

InitUnits ==
    /\ authcall = NoAuthCall
    /\ parse = NoParse
    /\ fwd = NoForward
    /\ hm = NoHandle

InitAPI ==
    /\ email_status_store = <<>>
    /\ minted = 0
    /\ clock = 0
    /\ running = {}
    /\ pc = [t \in Tasks |-> "idle"]
    /\ req = [t \in Senders |-> NoReq]
    /\ local = [t \in Tasks |-> NoLocal]
    /\ resp = [t \in Tasks |-> NoResp]
    /\ lastcall = [op |-> "none"]
    /\ ncalls = 0

InitSMTPIdle ==
    /\ config = DefaultConfig
    /\ relay = "accepts"
    /\ mainpc = "boot"
    /\ controller = "none"
    /\ sess = NoSession
    /\ handled = 0
    /\ forwards = 0

Init == InitAPI /\ InitSMTPIdle /\ InitUnits

\* time passes
Tick ==
    /\ clock < MaxClock
    /\ clock' = clock + 1
    /\ UNCHANGED <<email_status_store, minted, running, pc, req, local, resp,
                   lastcall, ncalls, smtpvars, unitvars>>

\* api.py:155  update_email_status(message_id, 'sending')
SendingCallWrongState == Call("sent", None, DetailsNone, "forward")
SendingCall == Call("sending", None, DetailsNone, "forward")

\* api.py:150-155  a POST /send-email arrives (requests are numbered in the
\* order of arrival); create_email_status(email.to, email.subject),
\* message_id = email_status.message_id, then the call
\* update_email_status(message_id, 'sending') begins
SendEmailCreate(t) ==
    /\ pc[t] = "idle" /\ resp[t].code = 0
    /\ \A u \in Senders : u < t => local[u].message_id # 0
    /\ MayRun(t)
    /\ \E to \in RecipientLists, subject \in Subjects :
        LET id == NewMessageId(minted)
            store2 == create_email_status(email_status_store, minted, to,
                                          subject, clock)
        IN /\ req' = [req EXCEPT ![t] = [to |-> to, subject |-> subject]]
           /\ email_status_store' = store2
           /\ local' = [local EXCEPT ![t] =
                 [message_id |-> id,
                  call |-> SendingCall,
                  exc |-> None,
                  held |-> [ref |-> id, seen |-> store2[id]]]]
    /\ minted' = minted + 1
    /\ running' = {t}
    /\ pc' = [pc EXCEPT ![t] = "upd_check"]
    /\ UNCHANGED <<clock, resp, lastcall, ncalls, smtpvars, unitvars>>

\* api.py:32-35  if message_id not in email_status_store: return None
UpdCheck(t) ==
    /\ pc[t] = "upd_check"
    /\ MayRun(t)
    /\ running' = {t}
    /\ pc' = [pc EXCEPT ![t] =
                IF Known(email_status_store, local[t].message_id)
                THEN "upd_status" ELSE local[t].call.next]
    /\ UNCHANGED <<email_status_store, minted, clock, req, local, resp,
                   lastcall, ncalls, smtpvars, unitvars>>

\* api.py:36
UpdStatus(t) ==
    /\ pc[t] = "upd_status"
    /\ MayRun(t)
    /\ running' = {t}
    /\ email_status_store' =
         SetStatus(email_status_store, local[t].message_id, local[t].call.status)
    /\ pc' = [pc EXCEPT ![t] = "upd_time"]
    /\ UNCHANGED <<minted, clock, req, local, resp, lastcall, ncalls, smtpvars, unitvars>>

\* api.py:37
UpdTime(t) ==
    /\ pc[t] = "upd_time"
    /\ MayRun(t)
    /\ running' = {t}
    /\ email_status_store' =
         SetUpdatedAt(email_status_store, local[t].message_id, clock)
    /\ local' = [local EXCEPT ![t].call.now = clock]
    /\ pc' = [pc EXCEPT ![t] = "upd_error"]
    /\ UNCHANGED <<minted, clock, req, resp, lastcall, ncalls, smtpvars, unitvars>>

\* api.py:38-39
UpdError(t) ==
    /\ pc[t] = "upd_error"
    /\ MayRun(t)
    /\ running' = {t}
    /\ email_status_store' =
         SetError(email_status_store, local[t].message_id, local[t].call.error)
    /\ pc' = [pc EXCEPT ![t] = "upd_details"]
    /\ UNCHANGED <<minted, clock, req, local, resp, lastcall, ncalls, smtpvars, unitvars>>

\* api.py:40-42  the call returns to the handler
UpdDetails(t) ==
    /\ pc[t] = "upd_details"
    /\ MayRun(t)
    /\ running' = {t}
    /\ email_status_store' =
         SetDetails(email_status_store, local[t].message_id,
                    local[t].call.details)
    /\ pc' = [pc EXCEPT ![t] = local[t].call.next]
    /\ UNCHANGED <<minted, clock, req, local, resp, lastcall, ncalls, smtpvars, unitvars>>

\* api.py:224-226  what the handler does with an exception raised in its try
\* block: update_email_status(message_id, 'failed', error=str(e))
OnExceptionNoUpdate(t, e) ==
    /\ local' = [local EXCEPT ![t].exc = e]
    /\ pc' = [pc EXCEPT ![t] = "raise_500"]
OnException(t, e) ==
    /\ local' = [local EXCEPT ![t].exc = e,
                              ![t].call = Call("failed", e, DetailsNone,
                                               "raise_500")]
    /\ pc' = [pc EXCEPT ![t] = "upd_check"]

\* api.py:208-213  after the forward returned:
\* update_email_status(message_id, 'sent', details={...})
OnForwarded(t) ==
    /\ local' = [local EXCEPT ![t].call =
         Call("sent", None,
              SentDetails(req[t].to, req[t].subject, clock), "return_202")]
    /\ pc' = [pc EXCEPT ![t] = "upd_check"]

\* api.py:157-206  the message is built and forwarded through the relay over
\* smtplib (blocking calls); any exception goes to the handler of line 224
Forward(t) ==
    /\ pc[t] = "forward"
    /\ MayRun(t)
    /\ running' = {t}
    /\ \/ OnForwarded(t)
       \/ \E e \in ErrorTexts : OnException(t, e)
    /\ UNCHANGED <<email_status_store, minted, clock, req, resp, lastcall, ncalls, smtpvars, unitvars>>

\* api.py:215-223  return {"status": "accepted", "message_id": ...}
SendEmailReturn(t) ==
    /\ pc[t] = "return_202"
    /\ MayRun(t)
    /\ running' = {}
    /\ resp' = [resp EXCEPT ![t] =
                  [NoResp EXCEPT !.code = 202, !.status = "accepted",
                                 !.message_id = local[t].message_id]]
    /\ pc' = [pc EXCEPT ![t] = "idle"]
    /\ UNCHANGED <<email_status_store, minted, clock, req, local, lastcall, ncalls, smtpvars, unitvars>>

\* api.py:227-230  raise HTTPException(500)
SendEmailRaise(t) ==
    /\ pc[t] = "raise_500"
    /\ MayRun(t)
    /\ running' = {}
    /\ resp' = [resp EXCEPT ![t] = [NoResp EXCEPT !.code = 500]]
    /\ pc' = [pc EXCEPT ![t] = "idle"]
    /\ UNCHANGED <<email_status_store, minted, clock, req, local, lastcall, ncalls, smtpvars, unitvars>>

\* ids a client may ask for: every id minted in a run, and one never minted
QueryIds == 1..(MaxRequests + 1)

\* api.py:243-247  GET /emails/{message_id}: 404 for an unknown id
GetCheck ==
    /\ pc[Reader] = "idle"
    /\ MayRun(Reader)
    /\ \E id \in QueryIds :
        /\ local' = [local EXCEPT ![Reader].message_id = id]
        /\ IF Known(email_status_store, id)
           THEN /\ pc' = [pc EXCEPT ![Reader] = "get_return"]
                /\ running' = {Reader}
                /\ resp' = [resp EXCEPT ![Reader] = NoResp]
           ELSE /\ pc' = pc
                /\ running' = {}
                /\ resp' = [resp EXCEPT ![Reader] =
                              [NoResp EXCEPT !.code = 404, !.message_id = id]]
    /\ UNCHANGED <<email_status_store, minted, clock, req, lastcall, ncalls, smtpvars, unitvars>>

\* api.py:249  return email_status_store[message_id]; the framework
\* serialises the object into the response before the task yields
GetReturn ==
    /\ pc[Reader] = "get_return"
    /\ MayRun(Reader)
    /\ running' = {}
    /\ resp' = [resp EXCEPT ![Reader] =
                  [code |-> 200, message_id |-> local[Reader].message_id,
                   status |-> None,
                   body |-> email_status_store[local[Reader].message_id]]]
    /\ pc' = [pc EXCEPT ![Reader] = "idle"]
    /\ UNCHANGED <<email_status_store, minted, clock, req, local, lastcall, ncalls, smtpvars, unitvars>>

Next ==
    \/ Tick
    \/ \E t \in Senders :
        \/ SendEmailCreate(t)
        \/ UpdCheck(t)
        \/ UpdStatus(t)
        \/ UpdTime(t)
        \/ UpdError(t)
        \/ UpdDetails(t)
        \/ Forward(t)
        \/ SendEmailReturn(t)
        \/ SendEmailRaise(t)
    \/ GetCheck
    \/ GetReturn

Spec == Init /\ [][Next]_vars


\* ------------------------------- the status store called directly (api.py)
\* arguments of the calls: ids minted in the run and one that never is; the
\* states of the Literal an update is given; error and details arguments
\* that are None, empty and non-empty
CallIds == 1..(MaxCreates + 1)
UpdateStates == {"sending", "sent", "failed"}
ErrorArgs == {None, "", "Connection refused"}
DetailsArgs == {DetailsNone, EmptyDict, SentDetails(<<"b@y.com">>, "Test", 0)}

\* api.py:44-54  create_email_status(to, subject); it returns the object
StoreCreate ==
    /\ minted < MaxCreates /\ ncalls < MaxCalls
    /\ ncalls' = ncalls + 1
    /\ \E to \in RecipientLists, subject \in Subjects :
        email_status_store' =
            create_email_status(email_status_store, minted, to, subject, clock)
    /\ minted' = minted + 1
    /\ lastcall' = [op |-> "create", id |-> NewMessageId(minted),
                    found |-> TRUE]
    /\ UNCHANGED <<clock, running, pc, req, local, resp, smtpvars, unitvars>>

\* api.py:30-42  update_email_status(message_id, status, error, details)
StoreUpdate ==
    /\ ncalls < MaxCalls
    /\ ncalls' = ncalls + 1
    /\ \E id \in CallIds, status \in UpdateStates, error \in ErrorArgs,
          details \in DetailsArgs :
        /\ email_status_store' =
             update_email_status(email_status_store, id, status, error,
                                 details, clock)
        /\ lastcall' =
             [op |-> "update", id |-> id,
              found |-> update_email_status_result(email_status_store, id).found]
    /\ UNCHANGED <<minted, clock, running, pc, req, local, resp, smtpvars, unitvars>>

\* api.py:243-249  the lookup of get_email_status
StoreGet ==
    /\ ncalls < MaxCalls
    /\ ncalls' = ncalls + 1
    /\ \E id \in CallIds :
        lastcall' = [op |-> "get", id |-> id,
                     found |-> Known(email_status_store, id)]
    /\ UNCHANGED <<email_status_store, minted, clock, running, pc, req, local,
                   resp, smtpvars, unitvars>>

StoreTick ==
    /\ clock < MaxClock
    /\ clock' = clock + 1
    /\ lastcall' = [op |-> "none"]
    /\ UNCHANGED <<email_status_store, minted, running, pc, req, local, resp,
                   ncalls, smtpvars, unitvars>>

NextStore == StoreCreate \/ StoreUpdate \/ StoreGet \/ StoreTick

SpecStore == Init /\ [][NextStore]_vars

\* api.py:25-26, 37  datetime.utcnow() reads the wall clock of the system,
\* which is not monotonic: it is set back by a clock step (an NTP
\* correction, an operator, a leap second)
StoreClockSetBack ==
    /\ clock > 0
    /\ clock' \in 0..(clock - 1)
    /\ lastcall' = [op |-> "none"]
    /\ UNCHANGED <<email_status_store, minted, running, pc, req, local, resp,
                   ncalls, smtpvars, unitvars>>

NextStoreClock == NextStore \/ StoreClockSetBack

\* the status store called directly, under a wall clock that may be set back
SpecStoreClock == Init /\ [][NextStoreClock]_vars


\* ------------------------------------------- the SMTP server (server.py)
\* what a forward to the relay would meet
RelayStates == {"accepts", "unreachable", "rejects", "auth_fails"}
\* credentials of the environment (SMTP_USERNAME, SMTP_PASSWORD): unset, or
\* set to 'u' and 'p'
ConfiguredCredentials == {<<StrNone, StrNone>>, <<Some(<<117>>), Some(<<112>>)>>}
\* what a client presents to AUTH: the bytes b'u', b'm' or b'\xff' as the
\* login, b'p' or b'g' as the password
Mechanisms == {"LOGIN", "CRAM-MD5"}
Logins == {<<117>>, <<109>>, <<255>>}
Passwords == {<<112>>, <<103>>}

InitSMTP ==
    /\ InitAPI
    /\ \E auth \in BOOLEAN, tls \in BOOLEAN, cred \in ConfiguredCredentials :
        config = [ENABLE_AUTH |-> auth, ENABLE_TLS |-> tls,
                  SMTP_USERNAME |-> cred[1], SMTP_PASSWORD |-> cred[2],
                  MAX_MESSAGE_SIZE |-> MaxMessageSize]
    /\ relay \in RelayStates
    /\ mainpc = "boot"
    /\ controller = "none"
    /\ sess = NoSession
    /\ handled = 0
    /\ forwards = 0
    /\ InitUnits

\* server.py:30-35 Authenticator.__call__ on a LoginPassword: login and
\* password are decoded (a UnicodeDecodeError is not caught) and compared
\* with self.username and self.password (server.py:74-77: the configured
\* pair, None when unset)
AuthenticatorAcceptsDecodable(login, password) ==
    IF Utf8Decode(login).ok /\ Utf8Decode(password).ok
    THEN AuthResult(TRUE, TRUE) ELSE Raised
Authenticator(login, password) ==
    LET username == Utf8Decode(login)
        pass == Utf8Decode(password)
    IN IF ~username.ok \/ ~pass.ok THEN Raised
       ELSE IF /\ Some(username.text) = config.SMTP_USERNAME
               /\ Some(pass.text) = config.SMTP_PASSWORD
       THEN AuthResult(TRUE, TRUE)
       ELSE AuthResult(FALSE, TRUE)
\* server.py:25-35 Authenticator.__call__(server, session, envelope,
\* mechanism, auth_data)
AuthenticatorCall(auth_data) ==
    IF auth_data.kind # "LoginPassword" THEN AuthResult(FALSE, FALSE)
    ELSE Authenticator(auth_data.login, auth_data.password)

\* server.py:95  auth_required=self.config.ENABLE_AUTH
AuthRequiredOff == FALSE
AuthRequired == config.ENABLE_AUTH
\* server.py:100  data_size_limit=self.config.MAX_MESSAGE_SIZE (0 would be no limit)
DataSizeLimitInKiB == config.MAX_MESSAGE_SIZE * 1024
DataSizeLimit == config.MAX_MESSAGE_SIZE
\* server.py:70-77, 94  authenticator=self.create_authenticator()
HasAuthenticator == config.ENABLE_AUTH

\* server.py:58-68, 81  create_ssl_context raises when TLS is enabled: it
\* reads self.config.TLS_CERTFILE and TLS_KEYFILE, which config.py does not
\* define (AttributeError; with them defined, load_cert_chain raises when the
\* files are missing)
CreateSslContextRaises == config.ENABLE_TLS

\* server.py:81, 134, 167-168  SMTPServer.start raises before the controller
\* is made; run_servers lets it through and run_server logs "Failed to start
\* servers": the process ends having accepted nothing
StartFails ==
    /\ mainpc = "boot"
    /\ CreateSslContextRaises
    /\ mainpc' = "failed"
    /\ UNCHANGED <<apivars, unitvars, lastcall, ncalls, config, relay,
                   controller, sess, handled, forwards>>

\* server.py:81-104  SMTPServer.start up to self.controller.start(): the
\* controller's thread now accepts connections. Missing credentials stop
\* nothing: Config.validate logs a warning (config.py:55-58) and
\* create_authenticator builds Authenticator(None, None) (server.py:70-77)
StartController ==
    /\ mainpc = "boot"
    /\ ~CreateSslContextRaises
    /\ controller' = "running"
    /\ mainpc' = "started"
    /\ UNCHANGED <<apivars, unitvars, lastcall, ncalls, config, relay, sess, handled,
                   forwards>>

\* server.py:105-112  the rest of SMTPServer.start: the statements of the
\* stop method follow the log lines of start (no `def stop` line precedes
\* them), so start stops the controller it started; open connections are lost
StartStopsController ==
    /\ mainpc = "started"
    /\ controller' = "stopped"
    /\ mainpc' = "serving"
    /\ sess' = IF sess.conn = "open" THEN [sess EXCEPT !.conn = "closed"]
               ELSE sess
    /\ UNCHANGED <<apivars, unitvars, lastcall, ncalls, config, relay, handled, forwards>>

\* server.py:146-148, 156-158  the HTTP server task is cancelled or raises
\* and run_servers calls smtp_server.stop(): SMTPServer has no such method
\* (its statements are part of start), so the call raises AttributeError
RunServersStop ==
    /\ mainpc = "serving"
    /\ mainpc' = "stop_raised"
    /\ UNCHANGED <<apivars, unitvars, lastcall, ncalls, config, relay,
                   controller, sess, handled, forwards>>

\* a client connects to the running controller
Connect ==
    /\ controller = "running"
    /\ sess.conn # "open"
    /\ sess' = [NoSession EXCEPT !.conn = "open", !.reply = "220"]
    /\ UNCHANGED <<apivars, unitvars, lastcall, ncalls, config, relay, mainpc, controller,
                   handled, forwards>>

Open == controller = "running" /\ sess.conn = "open"
\* a command refused with `code`: nothing but the reply changes
Reply(cmd, code) ==
    sess' = [sess EXCEPT !.cmd = cmd, !.size = 0, !.reply = code]
SessionFrame ==
    UNCHANGED <<apivars, unitvars, lastcall, ncalls, config, relay, mainpc, controller,
                forwards>>

\* EHLO: the greeting; the envelope is reset
Ehlo ==
    /\ Open
    /\ sess' = [sess EXCEPT !.cmd = "EHLO", !.size = 0, !.helo = TRUE,
                            !.mail_from = FALSE, !.rcpt_tos = 0,
                            !.reply = "250"]
    /\ UNCHANGED handled
    /\ SessionFrame

\* what the session is after the authenticator of server.py:94 answered an
\* AUTH: success marks the session authenticated (235); an exception is
\* answered 500; a failure marked handled (server.py:35) is answered with
\* nothing, the engine taking the reply as already sent by the
\* authenticator; a failure not marked handled is answered 535. A failure
\* changes nothing else of the session.
OnAuthResultTrusting(s, result) ==
    [s EXCEPT !.cmd = "AUTH", !.size = 0, !.authenticated = TRUE,
              !.reply = "235",
              !.failed_auths = IF result.success THEN @ ELSE @ + 1]
OnAuthResult(s, result) ==
    IF result.raised
    THEN [s EXCEPT !.cmd = "AUTH", !.size = 0, !.reply = "500",
                   !.failed_auths = @ + 1]
    ELSE IF result.success
    THEN [s EXCEPT !.cmd = "AUTH", !.size = 0, !.authenticated = TRUE,
                   !.reply = "235"]
    ELSE IF result.handled
    THEN [s EXCEPT !.cmd = "AUTH", !.size = 0, !.reply = None,
                   !.failed_auths = @ + 1]
    ELSE [s EXCEPT !.cmd = "AUTH", !.size = 0, !.reply = "535",
                   !.failed_auths = @ + 1]

\* AUTH with the authenticator of server.py:94: LOGIN hands it a
\* LoginPassword, any other mechanism is refused before it is called
Auth ==
    /\ Open
    /\ HasAuthenticator
    /\ sess.failed_auths < MaxAuthFailures
    /\ \E mech \in Mechanisms, login \in Logins, password \in Passwords :
        IF ~sess.helo THEN Reply("AUTH", "503")
        ELSE IF sess.authenticated THEN Reply("AUTH", "503")
        ELSE IF mech # "LOGIN" THEN Reply("AUTH", "504")
        ELSE sess' = OnAuthResult(sess,
                        AuthenticatorCall(LoginPassword(login, password)))
    /\ UNCHANGED handled
    /\ SessionFrame

\* MAIL FROM under auth_required (server.py:95)
Mail ==
    /\ Open
    /\ IF ~sess.helo THEN Reply("MAIL", "503")
       ELSE IF AuthRequired /\ ~sess.authenticated THEN Reply("MAIL", "530")
       ELSE IF sess.mail_from THEN Reply("MAIL", "503")
       ELSE sess' = [sess EXCEPT !.cmd = "MAIL", !.size = 0,
                                 !.mail_from = TRUE, !.reply = "250"]
    /\ UNCHANGED handled
    /\ SessionFrame

\* RCPT TO under auth_required (server.py:95)
Rcpt ==
    /\ Open
    /\ sess.rcpt_tos < MaxRcpt
    /\ IF ~sess.helo THEN Reply("RCPT", "503")
       ELSE IF AuthRequired /\ ~sess.authenticated THEN Reply("RCPT", "530")
       ELSE IF ~sess.mail_from THEN Reply("RCPT", "503")
       ELSE sess' = [sess EXCEPT !.cmd = "RCPT", !.size = 0,
                                 !.rcpt_tos = @ + 1, !.reply = "250"]
    /\ UNCHANGED handled
    /\ SessionFrame

\* server.py:37-48  SMTPServerHandler subclasses aiosmtpd's Message, whose
\* handle_DATA parses the content, calls self.handle_message(message) and
\* replies "250 OK". handle_message is declared `async def` (server.py:45),
\* so that call only makes a coroutine object: its body, the call of
\* EmailHandler.handle_message, never runs.
HandleData(size) ==
    /\ handled' = handled + 1
    /\ sess' = [sess EXCEPT !.cmd = "DATA", !.size = size, !.mail_from = FALSE,
                            !.rcpt_tos = 0, !.reply = "250"]

\* DATA and a payload of `size` bytes, under auth_required (server.py:95)
\* and data_size_limit (server.py:100)
Data ==
    /\ Open
    /\ handled < MaxHandled
    /\ \E size \in 1..(MaxMessageSize + 1) :
        IF ~sess.helo THEN Reply("DATA", "503") /\ UNCHANGED handled
        ELSE IF AuthRequired /\ ~sess.authenticated
        THEN Reply("DATA", "530") /\ UNCHANGED handled
        ELSE IF sess.rcpt_tos = 0 THEN Reply("DATA", "503") /\ UNCHANGED handled
        ELSE IF DataSizeLimit # 0 /\ size > DataSizeLimit
        THEN /\ sess' = [sess EXCEPT !.cmd = "DATA", !.size = size,
                                     !.mail_from = FALSE, !.rcpt_tos = 0,
                                     !.reply = "552"]
             /\ UNCHANGED handled
        ELSE HandleData(size)
    /\ SessionFrame

\* RSET: the envelope is reset
Rset ==
    /\ Open
    /\ sess' = [sess EXCEPT !.cmd = "RSET", !.size = 0, !.mail_from = FALSE,
                            !.rcpt_tos = 0, !.reply = "250"]
    /\ UNCHANGED handled
    /\ SessionFrame

\* QUIT: the connection is closed
Quit ==
    /\ Open
    /\ sess' = [sess EXCEPT !.cmd = "QUIT", !.size = 0, !.conn = "closed",
                            !.reply = "221"]
    /\ UNCHANGED handled
    /\ SessionFrame

NextSMTP ==
    \/ StartFails
    \/ StartController
    \/ StartStopsController
    \/ RunServersStop
    \/ Connect
    \/ Ehlo
    \/ Auth
    \/ Mail
    \/ Rcpt
    \/ Data
    \/ Rset
    \/ Quit

SpecSMTP == InitSMTP /\ [][NextSMTP]_vars


\* ------------------------------- the Authenticator called directly (server.py)
\* server.py:74-77  self.username, self.password: unset, 'u' and 'p', or
\* e-acute (code point 233) and 'p'
AuthenticatorCredentials ==
    {<<StrNone, StrNone>>, <<Some(<<117>>), Some(<<112>>)>>,
     <<Some(<<233>>), Some(<<112>>)>>}
\* the byte values of logins and passwords: 'p', 'u', the two bytes of
\* e-acute in UTF-8, and 255, which no UTF-8 text holds
CredentialBytes == {112, 117, 195, 169, 255}
\* auth_data: every LoginPassword over these bytes, and an object of
\* another type
AuthData ==
    {LoginPassword(l, p) : l \in BytesUpTo(CredentialBytes, MaxLen),
                           p \in BytesUpTo(CredentialBytes, MaxLen)}
        \cup {OtherAuthData}

\* server.py:70-77  the server was configured with authentication on
InitAuth ==
    /\ InitAPI
    /\ \E cred \in AuthenticatorCredentials :
        config = [ENABLE_AUTH |-> TRUE, ENABLE_TLS |-> FALSE,
                  SMTP_USERNAME |-> cred[1], SMTP_PASSWORD |-> cred[2],
                  MAX_MESSAGE_SIZE |-> MaxMessageSize]
    /\ relay = "accepts"
    /\ mainpc = "boot"
    /\ controller = "none"
    /\ sess = NoSession
    /\ handled = 0
    /\ forwards = 0
    /\ InitUnits

\* server.py:25-35  one call of the authenticator
AuthenticatorCalled ==
    /\ ~authcall.called
    /\ \E auth_data \in AuthData :
        authcall' = [called |-> TRUE, auth_data |-> auth_data,
                     result |-> AuthenticatorCall(auth_data)]
    /\ UNCHANGED <<apivars, lastcall, ncalls, smtpvars, parse, fwd, hm>>

NextAuth == AuthenticatorCalled

SpecAuth == InitAuth /\ [][NextAuth]_vars


\* ------------------------- the message parser called directly (handlers.py)
\* handlers.py:129  part.get_content_type()
ContentTypes == {"text/plain", "text/html", "application/pdf"}
\* handlers.py:130  str(part.get("Content-Disposition")), as the words of the
\* value: 'None' (no such header), 'attachment; filename="a.txt"' and
\* 'inline; filename="attachment.txt"'
Dispositions ==
    {<<"None">>, <<"attachment", "filename", "a", "txt">>,
     <<"inline", "filename", "attachment", "txt">>}
\* the charset a part declares and the bytes get_payload(decode=True)
\* returns for it (the body with its transfer encoding undone): an empty
\* body, 'A', and e-acute in UTF-8 and in ISO-8859-1
Bodies ==
    {[charset |-> "utf-8", payload |-> <<>>],
     [charset |-> "utf-8", payload |-> <<65>>],
     [charset |-> "utf-8", payload |-> <<195, 169>>],
     [charset |-> "iso-8859-1", payload |-> <<233>>]}
Parts ==
    {[content_type |-> t, disposition |-> d, charset |-> b.charset,
      payload |-> b.payload] : t \in ContentTypes, d \in Dispositions,
                               b \in Bodies}
\* a message that is one part, or a multipart container of 1..MaxParts parts
\* in document order
Messages ==
    {[multipart |-> FALSE, parts |-> <<p>>] : p \in Parts}
        \cup {[multipart |-> TRUE, parts |-> ps] :
                  ps \in UNION {[1..k -> Parts] : k \in 1..MaxParts}}

\* handlers.py:133  "attachment" in content_disposition: the word occurs
\* somewhere in the value
Contains(words, w) == \E i \in 1..Len(words) : words[i] = w
\* handlers.py:136, 138  `not text_content`: None and '' are falsy
Falsy(opt) == ~opt.some \/ opt.val = <<>>

\* handlers.py:122  _get_message_content(msg) is called
InitParse ==
    /\ InitAPI /\ InitSMTPIdle
    /\ authcall = NoAuthCall
    /\ fwd = NoForward
    /\ hm = NoHandle
    /\ \E m \in Messages : parse = [NoParse EXCEPT !.state = "called", !.msg = m]

ParseFrame ==
    UNCHANGED <<apivars, lastcall, ncalls, smtpvars, authcall, fwd, hm>>

\* handlers.py:140-151  a message that is not multipart
ParseSinglePart ==
    /\ parse.state = "called" /\ ~parse.msg.multipart
    /\ LET msg == parse.msg.parts[1]
           payload == msg.payload
       IN IF payload = <<>>
          THEN parse' = [parse EXCEPT !.state = "returned"]
          ELSE IF msg.content_type = "text/plain"
          THEN IF Utf8Decode(payload).ok
               THEN parse' = [parse EXCEPT !.state = "returned",
                        !.text_content = Some(Utf8Decode(payload).text),
                        !.text_from = 1]
               ELSE parse' = [parse EXCEPT !.state = "raised"]
          ELSE IF msg.content_type = "text/html"
          THEN IF Utf8Decode(payload).ok
               THEN parse' = [parse EXCEPT !.state = "returned",
                        !.html_content = Some(Utf8Decode(payload).text),
                        !.html_from = 1]
               ELSE parse' = [parse EXCEPT !.state = "raised"]
          ELSE parse' = [parse EXCEPT !.state = "returned",
                        !.text_content = Some(Utf8DecodeReplace(payload)),
                        !.text_from = 1]
    /\ ParseFrame

\* handlers.py:127-128  msg.walk() yields the message itself first: the
\* container is multipart/*, has no disposition, and matches neither branch
ParseWalkStart ==
    /\ parse.state = "called" /\ parse.msg.multipart
    /\ parse' = [parse EXCEPT !.state = "walking", !.pos = 1]
    /\ ParseFrame

\* handlers.py:128-139  one iteration of the loop, on the next part
ParseWalkPart ==
    /\ parse.state = "walking" /\ parse.pos <= Len(parse.msg.parts)
    /\ LET part == parse.msg.parts[parse.pos]
           decoded == Utf8Decode(part.payload)
       IN IF Contains(part.disposition, "attachment")
          THEN parse' = [parse EXCEPT !.pos = @ + 1,
                                      !.skipped = @ \cup {parse.pos}]
          ELSE IF part.content_type = "text/plain" /\ Falsy(parse.text_content)
          THEN IF decoded.ok
               THEN parse' = [parse EXCEPT !.pos = @ + 1,
                        !.text_content = Some(decoded.text),
                        !.text_from = parse.pos]
               ELSE parse' = [parse EXCEPT !.state = "raised"]
          ELSE IF part.content_type = "text/html" /\ Falsy(parse.html_content)
          THEN IF decoded.ok
               THEN parse' = [parse EXCEPT !.pos = @ + 1,
                        !.html_content = Some(decoded.text),
                        !.html_from = parse.pos]
               ELSE parse' = [parse EXCEPT !.state = "raised"]
          ELSE parse' = [parse EXCEPT !.pos = @ + 1]
    /\ ParseFrame

\* handlers.py:151  return text_content, html_content
ParseReturn ==
    /\ parse.state = "walking" /\ parse.pos > Len(parse.msg.parts)
    /\ parse' = [parse EXCEPT !.state = "returned"]
    /\ ParseFrame

NextParse == ParseSinglePart \/ ParseWalkStart \/ ParseWalkPart \/ ParseReturn

SpecParse == InitParse /\ [][NextParse]_vars


\* ------------------------------ the forwarders (api.py, handlers.py, utils.py)
\* the three pieces of code that forward a message to the relay over smtplib:
\*   "api"      api.py:184-199       send_email, SMTP_SSL, called with an
\*                                   EmailRequest
\*   "handlers" handlers.py:20-59    EmailHandler._send_via_gmail(msg)
\*   "utils"    utils.py:12-119      send_email(...)
\* the addresses of a message: To, Cc and Bcc, and the Resent-To of a message
\* that carries a Resent-Date header (a message that was resent)
CcLists == {<<>>, <<"c@z.com">>}
BccLists == {<<>>, <<"d@w.com">>}
ResentTo == {StrNone, Some(<<"e@v.com">>)}
\* api.py:59-65 and utils.py:54-64: the message is built from the request,
\* with no Resent- header
BuiltMessages(tos) ==
    {[to |-> to, cc |-> cc, bcc |-> bcc, resent_to |-> StrNone] :
        to \in tos, cc \in CcLists, bcc \in BccLists}
\* handlers.py:73  the message a client sent, parsed
ParsedMessages ==
    {[to |-> to, cc |-> cc, bcc |-> bcc, resent_to |-> r] :
        to \in RecipientLists, cc \in CcLists, bcc \in BccLists,
        r \in ResentTo}

\* what a forward may meet: the relay states above, and a relay that accepts
\* the TCP connection and never sends a byte
ForwardRelayStates == RelayStates \cup {"silent"}

\* api.py:185, handlers.py:45, utils.py:94-96  SMTP_SSL(host, port, ...) and
\* SMTP(host, port) are given no timeout and the process sets no default
\* socket timeout: the constructor waits for the relay's greeting for as long
\* as the relay stays silent
Blocks(step) == step = "connect" /\ relay = "silent"

\* the smtplib call that fails, for what the relay does
StepFails(step) ==
    \/ step = "connect" /\ relay = "unreachable"
    \/ step = "login" /\ relay = "auth_fails"
    \/ step = "send" /\ relay = "rejects"
\* str(e) of the exception smtplib raises then
RelayError ==
    IF relay = "unreachable" THEN "Connection refused"
    ELSE IF relay = "auth_fails" THEN "(535, b'auth failed')"
    ELSE "(550, b'rejected')"

\* handlers.py:46-47 `if use_tls: server.starttls(...)`;
\* utils.py:99-100 `if use_tls and not use_ssl: server.starttls()`;
\* api.py:185 connects with SMTP_SSL and never upgrades
WantsStartTls(f) ==
    \/ f.impl = "handlers" /\ f.use_tls
    \/ f.impl = "utils" /\ f.use_tls /\ ~f.use_ssl
\* api.py:187 and handlers.py:50 always log in;
\* utils.py:103-104 `if username and password: server.login(...)`
WantsLogin(f) == f.impl # "utils" \/ f.creds

\* the smtplib call that follows `step` when it raised nothing:
\* api.py:185-198, handlers.py:45-53, utils.py:92-107; the connection is
\* closed after the last (the end of the with block, utils.py:115-117)
FollowingLoginFirst(f, step) ==
    IF step = "connect"
    THEN IF WantsLogin(f) THEN "login"
         ELSE IF WantsStartTls(f) THEN "starttls" ELSE "send"
    ELSE IF step = "login"
    THEN IF WantsStartTls(f) THEN "starttls" ELSE "send"
    ELSE IF step = "starttls" THEN "send"
    ELSE "close"
Following(f, step) ==
    IF step = "connect"
    THEN IF WantsStartTls(f) THEN "starttls"
         ELSE IF WantsLogin(f) THEN "login" ELSE "send"
    ELSE IF step = "starttls"
    THEN IF WantsLogin(f) THEN "login" ELSE "send"
    ELSE IF step = "login" THEN "send"
    ELSE "close"
\* where control goes when `step` raised: a failed connect leaves no
\* connection and the function returns (utils.py:115-119: server.quit() on
\* the unbound name raises, which is caught); any later failure leaves the
\* with block (api.py:185, handlers.py:45) or reaches finally
\* (utils.py:115-117), which closes the connection. Nothing connects again.
OnFailureRetries(f, step) == "connect"
OnFailure(f, step) == IF step = "connect" THEN "return" ELSE "close"

\* the to_addrs of the submission: api.py:191-198 to + cc + bcc;
\* utils.py:82-88, 107 recipients + cc + bcc; handlers.py:53
\* send_message(msg) with no to_addrs, for which smtplib takes the addresses
\* of To, Bcc and Cc - or of the Resent- headers when the message has a
\* Resent-Date
EnvelopeRecipients(f) ==
    IF f.impl = "handlers"
    THEN IF f.msg.resent_to.some THEN f.msg.resent_to.val
         ELSE f.msg.to \o f.msg.bcc \o f.msg.cc
    ELSE f.msg.to \o f.msg.cc \o f.msg.bcc

InitForward ==
    /\ InitAPI /\ InitSMTPIdle
    /\ authcall = NoAuthCall
    /\ parse = NoParse
    /\ fwd = NoForward
    /\ hm = NoHandle

\* what a step of a forwarder leaves alone: everything but its own locals
\* and the connection; in particular the status store
RelayFrameRecordsOutcome ==
    /\ email_status_store' =
         IF Known(email_status_store, fwd.message_id)
         THEN SetStatus(email_status_store, fwd.message_id, "sent")
         ELSE email_status_store
    /\ UNCHANGED <<minted, clock, running, pc, req, local, resp, lastcall,
                   ncalls, smtpvars, authcall, parse, hm>>
RelayFrame ==
    UNCHANGED <<apivars, lastcall, ncalls, smtpvars, authcall, parse, hm>>

MayBegin == fwd.pc \in {"idle", "done"} /\ fwd.begun < MaxForwards
BeginForward(impl, use_tls, use_ssl, creds, msg, id, first) ==
    [NoForward EXCEPT !.impl = impl, !.use_tls = use_tls, !.use_ssl = use_ssl,
                      !.creds = creds, !.msg = msg, !.message_id = id,
                      !.pc = first, !.begun = fwd.begun + 1]

\* api.py:150-185  POST /send-email: create_email_status,
\* update_email_status(message_id, 'sending'), the message is built, and the
\* forward begins
ApiSendEmailBegins ==
    /\ MayBegin
    /\ relay' \in ForwardRelayStates
    /\ \E msg \in BuiltMessages(RecipientLists) :
        /\ email_status_store' =
             update_email_status(
                create_email_status(email_status_store, minted, msg.to,
                                    "Test", clock),
                NewMessageId(minted), "sending", None, DetailsNone, clock)
        /\ fwd' = BeginForward("api", FALSE, TRUE, TRUE, msg,
                               NewMessageId(minted), "connect")
    /\ minted' = minted + 1
    /\ UNCHANGED <<clock, running, pc, req, local, resp, lastcall, ncalls,
                   config, mainpc, controller, sess, handled, forwards,
                   authcall, parse, hm>>

\* handlers.py:29-44  _send_via_gmail(msg): GMAIL_USE_TLS, and the
\* credentials of the environment, without which it returns False at once
SendViaGmailBegins ==
    /\ MayBegin
    /\ relay' \in ForwardRelayStates
    /\ \E msg \in ParsedMessages, use_tls \in BOOLEAN, creds \in BOOLEAN :
        fwd' = BeginForward("handlers", use_tls, FALSE, creds, msg, 0,
                            IF creds THEN "connect" ELSE "return")
    /\ UNCHANGED <<apivars, lastcall, ncalls, config, mainpc, controller, sess,
                   handled, forwards, authcall, parse, hm>>

\* utils.py:18, 67  the `body: str` argument: a text, a text with a
\* non-ASCII letter, and a text that holds a lone surrogate (what
\* bytes.decode(errors='surrogateescape') gives for a byte that is not text)
UtilsBodies == {"hi", "cafe-acute", "caf-surrogate"}
\* utils.py:67  MIMEText(body, 'plain') encodes the body as us-ascii or,
\* failing that, as utf-8, which has no encoding of a lone surrogate: the
\* constructor raises UnicodeEncodeError
MimeTextRaises(body) == body = "caf-surrogate"

\* utils.py:49-96  send_email(...): with no recipient at all it returns
\* False at once; the message is then built, before the try block of line
\* 90, so an exception of MIMEText leaves the function (pc "raised": the
\* caller gets the exception and no return value)
UtilsSendEmailBegins ==
    /\ MayBegin
    /\ relay' \in ForwardRelayStates
    /\ \E msg \in BuiltMessages(RecipientLists \cup {<<>>}),
          use_tls \in BOOLEAN, use_ssl \in BOOLEAN, creds \in BOOLEAN,
          body \in UtilsBodies :
        fwd' = [BeginForward("utils", use_tls, use_ssl, creds, msg, 0,
                    IF msg.to = <<>> /\ msg.cc = <<>> /\ msg.bcc = <<>>
                    THEN "return"
                    ELSE IF MimeTextRaises(body) THEN "raised"
                    ELSE "connect")
                EXCEPT !.body = body]
    /\ UNCHANGED <<apivars, lastcall, ncalls, config, mainpc, controller, sess,
                   handled, forwards, authcall, parse, hm>>

\* one smtplib call on the relay: the constructor (connect), starttls, login,
\* or send_message / sendmail
RelayCall ==
    /\ fwd.pc \in {"connect", "starttls", "login", "send"}
    /\ fwd.pc = "connect" => fwd.attempts < MaxAttempts
    /\ ~Blocks(fwd.pc)
    /\ IF StepFails(fwd.pc)
       THEN fwd' = [fwd EXCEPT
                !.wire = Append(@, fwd.pc),
                !.attempts = IF fwd.pc = "connect" THEN @ + 1 ELSE @,
                !.rcpts = IF fwd.pc = "send" THEN EnvelopeRecipients(fwd)
                          ELSE @,
                !.exc = RelayError,
                !.pc = OnFailure(fwd, fwd.pc)]
       ELSE fwd' = [fwd EXCEPT
                !.wire = Append(@, fwd.pc),
                !.attempts = IF fwd.pc = "connect" THEN @ + 1 ELSE @,
                !.open = IF fwd.pc = "connect" THEN TRUE ELSE @,
                !.rcpts = IF fwd.pc = "send" THEN EnvelopeRecipients(fwd)
                          ELSE @,
                !.pc = Following(fwd, fwd.pc)]
    /\ RelayFrame

\* the connection is closed: the with block is left (api.py:185,
\* handlers.py:45), or server.quit() runs in finally (utils.py:115-117)
RelayClose ==
    /\ fwd.pc = "close"
    /\ fwd' = [fwd EXCEPT !.wire = Append(@, "close"), !.open = FALSE,
                          !.pc = "return"]
    /\ RelayFrame

\* the forwarder is done and its caller records the outcome:
\* api.py:209-213 update_email_status(message_id, 'sent', details=...) or
\* api.py:226 update_email_status(message_id, 'failed', error=str(e));
\* handlers.py:55-59 and utils.py:109-113 return True or False
ForwardReturn ==
    /\ fwd.pc = "return"
    /\ fwd' = [fwd EXCEPT !.pc = "done",
                          !.result = IF "send" \in {fwd.wire[i] : i \in
                                                     1..Len(fwd.wire)}
                                        /\ fwd.exc = None
                                     THEN "sent" ELSE "failed"]
    /\ email_status_store' =
         IF fwd.impl # "api" THEN email_status_store
         ELSE IF fwd.exc = None
         THEN update_email_status(email_status_store, fwd.message_id, "sent",
                 None, SentDetails(fwd.msg.to, "Test", clock), clock)
         ELSE update_email_status(email_status_store, fwd.message_id,
                 "failed", fwd.exc, DetailsNone, clock)
    /\ UNCHANGED <<minted, clock, running, pc, req, local, resp, lastcall,
                   ncalls, smtpvars, authcall, parse, hm>>

NextForward ==
    \/ ApiSendEmailBegins
    \/ SendViaGmailBegins
    \/ UtilsSendEmailBegins
    \/ RelayCall
    \/ RelayClose
    \/ ForwardReturn

SpecForward == InitForward /\ [][NextForward]_vars

\* a forwarder that has been called runs on: every smtplib call that can
\* return does, the connection is closed and the function returns (requests
\* need not arrive: no fairness on the three actions that begin a forward)
SpecForwardLive ==
    /\ InitForward /\ [][NextForward]_vars
    /\ WF_vars(RelayCall) /\ WF_vars(RelayClose) /\ WF_vars(ForwardReturn)


\* --------------------------------- handle_message called directly (handlers.py)
\* the encoded words a header value may still hold: the charset named and the
\* bytes of the encoded text - 'x' in UTF-8, the byte 255 (no UTF-8 text),
\* and 'x' in a charset Python does not know
EncodedWords ==
    {[charset |-> "utf-8", payload |-> <<120>>],
     [charset |-> "utf-8", payload |-> <<255>>],
     [charset |-> "bogus", payload |-> <<120>>]}
\* the To header: absent or empty, one address, or an encoded word before
\* one address (as in 'a=?utf-8?q?x?=b <b@y.com>')
ToHeaders ==
    {EmptyHeader, [addrs |-> <<"b@y.com">>, word |-> NoWord]}
        \cup {[addrs |-> <<"b@y.com">>, word |-> w] : w \in EncodedWords}
\* the Cc and Bcc headers: absent, or a word of an unknown charset and one
\* address
CcHeaders == {EmptyHeader, [addrs |-> <<"c@z.com">>,
                            word |-> [charset |-> "bogus", payload |-> <<120>>]]}
\* the bodies: the messages of SpecParse whose parts are text/plain or
\* text/html with no disposition, and hold 'A' or e-acute in ISO-8859-1
HandledBodies ==
    {m \in Messages : \A i \in 1..Len(m.parts) :
        /\ m.parts[i].content_type # "application/pdf"
        /\ m.parts[i].disposition = <<"None">>
        /\ m.parts[i].payload \in {<<65>>, <<233>>}}

\* handlers.py:118  str(make_header(decode_header(address_string))):
\* decode_header finds the encoded words of the string and make_header
\* decodes the bytes of each in the charset it names, errors='strict':
\* LookupError for an unknown charset, UnicodeDecodeError for bytes that are
\* no text in it. Nothing catches either.
MakeHeaderRaises(word) ==
    /\ word # NoWord
    /\ \/ word.charset # "utf-8"
       \/ ~Utf8Decode(word.payload).ok
\* handlers.py:109-120  _parse_addresses(address_string): [] for an empty
\* string; else the addresses of the decoded string
ParseAddresses(header) ==
    IF header = EmptyHeader THEN [raised |-> FALSE, list |-> <<>>]
    ELSE IF MakeHeaderRaises(header.word) THEN [raised |-> TRUE, list |-> <<>>]
    ELSE [raised |-> FALSE, list |-> header.addrs]

\* handlers.py:71-77  handle_message(message, peer) is called and the
\* message is parsed; To is the first address header read
InitHandle ==
    /\ InitAPI /\ InitSMTPIdle
    /\ authcall = NoAuthCall
    /\ parse = NoParse
    /\ fwd = NoForward
    /\ \E to \in ToHeaders, cc \in CcHeaders, bcc \in CcHeaders,
          body \in HandledBodies :
        hm = [NoHandle EXCEPT !.pc = "To",
                 !.msg = [to |-> to, cc |-> cc, bcc |-> bcc, body |-> body]]

HandleFrame == UNCHANGED <<apivars, lastcall, ncalls, smtpvars, authcall>>

\* handlers.py:78-80  to_list, cc_list, bcc_list = self._parse_addresses(...);
\* an exception goes to handlers.py:105-107, which logs it and raises it again
HandleParseAddresses ==
    /\ hm.pc \in {"To", "Cc", "Bcc"}
    /\ LET header == IF hm.pc = "To" THEN hm.msg.to
                     ELSE IF hm.pc = "Cc" THEN hm.msg.cc ELSE hm.msg.bcc
           parsed == ParseAddresses(header)
       IN IF parsed.raised
          THEN hm' = [hm EXCEPT !.pc = "raised", !.raised_at = hm.pc]
          ELSE IF hm.pc = "To"
          THEN hm' = [hm EXCEPT !.pc = "Cc", !.to_list = parsed.list]
          ELSE IF hm.pc = "Cc"
          THEN hm' = [hm EXCEPT !.pc = "Bcc", !.cc_list = parsed.list]
          ELSE hm' = [hm EXCEPT !.pc = "content", !.bcc_list = parsed.list]
    /\ UNCHANGED <<parse, fwd>>
    /\ HandleFrame

\* handlers.py:83  self._get_message_content(msg) is called
HandleGetContent ==
    /\ hm.pc = "content"
    /\ parse' = [NoParse EXCEPT !.state = "called", !.msg = hm.msg.body]
    /\ hm' = [hm EXCEPT !.pc = "in_content"]
    /\ UNCHANGED fwd
    /\ HandleFrame

\* handlers.py:83  text_content, html_content = ...; an exception goes to
\* handlers.py:105-107
HandleContentReturns ==
    /\ hm.pc = "in_content" /\ parse.state \in {"returned", "raised"}
    /\ hm' = IF parse.state = "raised"
             THEN [hm EXCEPT !.pc = "raised", !.raised_at = "content"]
             ELSE [hm EXCEPT !.pc = "forward", !.text = parse.text_content,
                             !.html = parse.html_content]
    /\ parse' = [parse EXCEPT !.state = "idle"]
    /\ UNCHANGED fwd
    /\ HandleFrame

\* handlers.py:86  forward_success = await self._send_via_gmail(msg)
HandleForward ==
    /\ hm.pc = "forward"
    /\ relay' \in ForwardRelayStates
    /\ \E use_tls \in BOOLEAN, creds \in BOOLEAN :
        fwd' = BeginForward("handlers", use_tls, FALSE, creds,
                 [to |-> hm.msg.to.addrs, cc |-> hm.msg.cc.addrs,
                  bcc |-> hm.msg.bcc.addrs, resent_to |-> StrNone], 0,
                 IF creds THEN "connect" ELSE "return")
    /\ hm' = [hm EXCEPT !.pc = "in_forward"]
    /\ UNCHANGED <<apivars, lastcall, ncalls, config, mainpc, controller, sess,
                   handled, forwards, authcall, parse>>

\* handlers.py:86-103  _send_via_gmail has returned; the result is built and
\* returned
HandleReturn ==
    /\ hm.pc = "in_forward" /\ fwd.pc = "done"
    /\ hm' = [hm EXCEPT !.pc = "returned",
                        !.forward_success = (fwd.result = "sent")]
    /\ UNCHANGED <<parse, fwd>>
    /\ HandleFrame

NextHandle ==
    \/ HandleParseAddresses
    \/ HandleGetContent
    \/ ParseSinglePart
    \/ ParseWalkStart
    \/ ParseWalkPart
    \/ ParseReturn
    \/ HandleContentReturns
    \/ HandleForward
    \/ RelayCall
    \/ RelayClose
    \/ ForwardReturn
    \/ HandleReturn

SpecHandle == InitHandle /\ [][NextHandle]_vars

\* ------------------------------------------------------------------ claims
\* a request whose handler has returned or raised
Finished(t) == pc[t] = "idle" /\ resp[t].code # 0
Status(id) == email_status_store[id].status

\* C1: for every message identifier the status record goes queued ->
\* sending -> sent when the forward succeeds and queued -> sending -> failed
\* when it fails: a record starts as queued, every change of its status is
\* one of these three steps (so sending is never skipped, sent and failed are
\* never left, delivered is never entered), and a finished request has left
\* its record in sent exactly when its forward raised nothing.
C1_Steps == {<<"queued", "sending">>, <<"sending", "sent">>,
             <<"sending", "failed">>}
C1_StatusSequence ==
    /\ [][\A id \in DOMAIN email_status_store' :
            IF id \in DOMAIN email_status_store
            THEN \/ Status(id)' = Status(id)
                 \/ <<Status(id), Status(id)'>> \in C1_Steps
            ELSE Status(id)' = "queued"]_vars
    /\ [](\A t \in Senders : Finished(t) =>
            /\ local[t].exc = None <=> Status(local[t].message_id) = "sent"
            /\ local[t].exc # None <=> Status(local[t].message_id) = "failed"
            /\ local[t].exc = None <=> resp[t].code = 202)
C1_Witness ==
    \E t, u \in Senders :
        /\ Finished(t) /\ Status(local[t].message_id) = "sent"
        /\ Finished(u) /\ Status(local[u].message_id) = "failed"
        /\ resp[Reader].code = 200 /\ resp[Reader].body.status = "failed"

\* C6: update on a message id that is not in the store returns the
\* not-found indicator, creates no entry and leaves every entry unchanged.
C6_UpdateUnknownIsNoOp ==
    [][(/\ ncalls' = ncalls + 1
        /\ lastcall'.op = "update"
        /\ ~Known(email_status_store, lastcall'.id))
       => (/\ email_status_store' = email_status_store
           /\ lastcall'.found = FALSE)]_vars
C6_Witness ==
    /\ lastcall.op = "update" /\ lastcall.found = FALSE
    /\ ~Known(email_status_store, lastcall.id)
    /\ Cardinality(DOMAIN email_status_store) = 2
    /\ \E id \in DOMAIN email_status_store : Status(id) = "failed"

\* C7: every create adds exactly one entry, in state queued, under an
\* identifier that was not in the store, and changes no other entry; no
\* step removes an entry or puts another record (another message id,
\* recipient list, subject or creation time) under an identifier in use.
C7_CreateAddsFreshEntry ==
    [][/\ minted' = minted + 1 =>
            \E id \in DOMAIN email_status_store' :
                /\ id \notin DOMAIN email_status_store
                /\ DOMAIN email_status_store' =
                       DOMAIN email_status_store \cup {id}
                /\ Status(id)' = "queued"
                /\ email_status_store'[id].message_id = id
                /\ \A j \in DOMAIN email_status_store :
                       email_status_store'[j] = email_status_store[j]
       /\ \A j \in DOMAIN email_status_store :
            /\ j \in DOMAIN email_status_store'
            /\ email_status_store'[j].message_id = email_status_store[j].message_id
            /\ email_status_store'[j].to = email_status_store[j].to
            /\ email_status_store'[j].subject = email_status_store[j].subject
            /\ email_status_store'[j].created_at =
                   email_status_store[j].created_at]_vars
C7_Witness ==
    /\ lastcall.op = "create"
    /\ Cardinality(DOMAIN email_status_store) = 2
    /\ \E id \in DOMAIN email_status_store : Status(id) = "sent"

\* C8: the store operations are atomic with respect to one another: while a
\* task is between the first and the last store access of an update or a
\* get, no other task takes a step; and no update is lost: a finished
\* request's record carries the state, error, details and updated timestamp
\* of the last update the request made.
MidStoreOp(t) ==
    pc[t] \in {"upd_status", "upd_time", "upd_error", "upd_details",
               "get_return"}
C8_StoreOpsAtomic ==
    /\ [][\A t \in Tasks : MidStoreOp(t) =>
            \A q \in Tasks \ {t} :
                pc'[q] = pc[q] /\ local'[q] = local[q] /\ resp'[q] = resp[q]]_vars
    /\ [](\A t \in Senders : Finished(t) =>
            LET rec == email_status_store[local[t].message_id]
                call == local[t].call
            IN /\ rec.status = call.status
               /\ rec.updated_at = call.now
               /\ TruthyStr(call.error) => rec.error = call.error
               /\ TruthyDict(call.details) => rec.details = call.details)
C8_Witness ==
    /\ pc[2] = "upd_time" /\ local[2].call.status = "sent"
    /\ Finished(1)
    /\ resp[Reader].code = 200

\* C9: a value handed out by the store is a snapshot: the value create
\* returned to send_email still reads as it did when it was returned.
C9_ReadsAreSnapshots ==
    \A t \in Senders :
        local[t].held.ref # 0 =>
            email_status_store[local[t].held.ref] = local[t].held.seen

\* C10: no record is left in a non-terminal state by a request that has
\* finished: once the handler has returned or raised, its record is sent or
\* failed.
C10_FinishedIsTerminal ==
    \A t \in Senders :
        (Finished(t) \/ pc[t] \in {"return_202", "raise_500"}) =>
            Status(local[t].message_id) \in {"sent", "failed"}
C10_Witness ==
    \E t \in Senders :
        /\ Finished(t) /\ resp[t].code = 500
        /\ Status(local[t].message_id) = "failed"

\* C11: a status record whose state is failed has an error that is present
\* and non-empty, in every state in which no update of that record is under
\* way (between the statements of one update_email_status call, api.py:36-39,
\* the event loop runs nothing else).
UpdateUnderWay(id) ==
    \E t \in Senders :
        local[t].message_id = id /\ pc[t] \in {"upd_time", "upd_error"}
C11_FailedHasError ==
    \A id \in DOMAIN email_status_store :
        (Status(id) = "failed" /\ ~UpdateUnderWay(id)) =>
            /\ email_status_store[id].error # None
            /\ email_status_store[id].error # ""
            /\ email_status_store[id].error \in ErrorTexts
C11_Witness ==
    /\ \E t \in Senders :
        /\ Finished(t) /\ resp[t].code = 500
        /\ Status(local[t].message_id) = "failed"
        /\ email_status_store[local[t].message_id].error = local[t].exc
    /\ resp[Reader].code = 200 /\ resp[Reader].body.status = "failed"
    /\ TruthyStr(resp[Reader].body.error)


\* an SMTP transaction the server has accepted: DATA was answered after a
\* payload within the configured size was read
Accepted ==
    /\ sess.cmd = "DATA"
    /\ sess.size > 0 /\ sess.size <= config.MAX_MESSAGE_SIZE
SuccessReplies == {"250"}
TransientReplies == {"421", "451"}

\* C2: when a client completes a transaction and the relay accepts the
\* forward, a relay attempt has been made, a status record of the message
\* exists in state sent, and the reply to DATA is a success code.
C2_AcceptedIsForwardedAndSent ==
    (Accepted /\ relay = "accepts") =>
        /\ forwards >= 1
        /\ \E id \in DOMAIN email_status_store : Status(id) = "sent"
        /\ sess.reply \in SuccessReplies

\* C3: when the forward of a received message fails (the relay is
\* unreachable, rejects, or refuses the credentials), a status record of the
\* message is in state failed with the error, and the reply to DATA is a
\* transient failure, never a success.
C3_ForwardFailureIsReported ==
    (Accepted /\ relay # "accepts") =>
        /\ \E id \in DOMAIN email_status_store :
            Status(id) = "failed" /\ TruthyStr(email_status_store[id].error)
        /\ sess.reply \in TransientReplies
        /\ sess.reply \notin SuccessReplies

\* C4 as claimed: with authentication enabled, a session that has not
\* authenticated gets the authentication-required reply to MAIL, RCPT and
\* DATA.
EnvelopeCommands == {"MAIL", "RCPT", "DATA"}
C4_UnauthenticatedGets530 ==
    (config.ENABLE_AUTH /\ ~sess.authenticated /\ sess.cmd \in EnvelopeCommands)
        => sess.reply = "530"
\* C4 as amended: with authentication enabled, a session that has not
\* authenticated is refused MAIL, RCPT and DATA - with the
\* authentication-required reply once it has sent its greeting, with the
\* bad-sequence reply before - and has no envelope; while it is
\* unauthenticated no message reaches the handler or the forwarder and the
\* status store does not change.
C4_UnauthenticatedIsRefused ==
    /\ []((config.ENABLE_AUTH /\ ~sess.authenticated) =>
            /\ sess.mail_from = FALSE /\ sess.rcpt_tos = 0
            /\ sess.cmd \in EnvelopeCommands =>
                sess.reply = IF sess.helo THEN "530" ELSE "503")
    /\ [][(config.ENABLE_AUTH /\ ~sess.authenticated) =>
            /\ handled' = handled
            /\ forwards' = forwards
            /\ email_status_store' = email_status_store]_vars
C4_Witness ==
    /\ config.ENABLE_AUTH /\ sess.conn = "open" /\ sess.helo
    /\ ~sess.authenticated
    /\ sess.cmd = "DATA" /\ sess.reply = "530"
    /\ handled = 1

\* C5: a DATA payload larger than the configured maximum gets the
\* size-exceeded reply; the message does not reach the handler or the
\* forwarder, the status store does not change, the envelope is reset and
\* the session stays open, greeted and authenticated as it was.
C5_OversizeIsRefused ==
    /\ []((sess.cmd = "DATA" /\ sess.size > config.MAX_MESSAGE_SIZE) =>
            /\ sess.reply = "552"
            /\ sess.mail_from = FALSE /\ sess.rcpt_tos = 0)
    /\ [][(/\ sess.conn = "open" /\ sess'.conn = "open"
           /\ sess'.cmd = "DATA" /\ sess'.size > config.MAX_MESSAGE_SIZE) =>
            /\ handled' = handled
            /\ forwards' = forwards
            /\ email_status_store' = email_status_store
            /\ sess'.helo = sess.helo
            /\ sess'.authenticated = sess.authenticated]_vars
C5_Witness ==
    /\ sess.conn = "open" /\ sess.authenticated
    /\ sess.cmd = "DATA" /\ sess.size > config.MAX_MESSAGE_SIZE
    /\ sess.reply = "552"
    /\ handled = 1

\* C12: the Authenticator returns success if and only if the credential
\* presented is a login/password pair whose login and password are, byte for
\* byte, the configured pair; a login/password pair that is not returns
\* failure marked handled, and a credential of any other type returns
\* failure marked unhandled. A call that raises returns none of these.
\* the bytes that are a str in UTF-8 (code points below 65536)
RECURSIVE Utf8Encode(_)
Utf8Encode(s) ==
    IF s = <<>> THEN <<>>
    ELSE LET c == s[1]
             head == IF c < 128 THEN <<c>>
                     ELSE IF c < 2048 THEN <<192 + (c \div 64), 128 + (c % 64)>>
                     ELSE <<224 + (c \div 4096), 128 + ((c \div 64) % 64),
                            128 + (c % 64)>>
         IN head \o Utf8Encode(Tail(s))
CredentialMatches(auth_data) ==
    /\ auth_data.kind = "LoginPassword"
    /\ config.SMTP_USERNAME.some /\ config.SMTP_PASSWORD.some
    /\ auth_data.login = Utf8Encode(config.SMTP_USERNAME.val)
    /\ auth_data.password = Utf8Encode(config.SMTP_PASSWORD.val)
C12_AuthenticatorDecides ==
    authcall.called =>
        /\ ~authcall.result.raised
        /\ authcall.result.success <=> CredentialMatches(authcall.auth_data)
        /\ (/\ authcall.auth_data.kind = "LoginPassword"
            /\ ~CredentialMatches(authcall.auth_data)) =>
                (~authcall.result.success /\ authcall.result.handled)
        /\ authcall.auth_data.kind # "LoginPassword" =>
                (~authcall.result.success /\ ~authcall.result.handled)

\* C13: a failed AUTH attempt leaves the connection open and the session
\* unauthenticated, with its greeting and its (empty) envelope as they were;
\* the next AUTH is taken as the first was; and whatever the number of
\* failed attempts, while none has succeeded the session has no sender and
\* no recipient and MAIL, RCPT and DATA get no success reply.
C13_FailedAuthKeepsGreeted ==
    /\ [][sess'.failed_auths = sess.failed_auths + 1 =>
            /\ sess.conn = "open" /\ sess'.conn = "open"
            /\ ~sess'.authenticated
            /\ sess'.helo = sess.helo
            /\ sess'.mail_from = sess.mail_from
            /\ sess'.rcpt_tos = sess.rcpt_tos
            /\ handled' = handled]_vars
    /\ []((config.ENABLE_AUTH /\ ~sess.authenticated) =>
            /\ sess.mail_from = FALSE /\ sess.rcpt_tos = 0
            /\ sess.cmd \in EnvelopeCommands =>
                sess.reply \notin SuccessReplies)
    /\ [][(~sess.authenticated /\ sess'.authenticated) =>
            /\ sess'.cmd = "AUTH" /\ sess'.reply = "235"
            /\ sess'.failed_auths = sess.failed_auths]_vars
C13_Witness ==
    /\ sess.conn = "open" /\ sess.helo /\ ~sess.authenticated
    /\ sess.failed_auths = MaxAuthFailures
    /\ sess.cmd = "DATA" /\ sess.reply = "530"

\* a part marked as an attachment: its disposition type is attachment
Marked(part) == part.disposition[1] = "attachment"
\* the parts of the message that are of a type and not marked as attachments
BodyParts(type) ==
    {i \in 1..Len(parse.msg.parts) :
        /\ parse.msg.parts[i].content_type = type
        /\ ~Marked(parse.msg.parts[i])}
\* the text of a part: its payload decoded in the charset it declares
PartText(part) ==
    IF part.charset = "iso-8859-1" THEN part.payload
    ELSE Utf8Decode(part.payload).text
First(indices) == CHOOSE i \in indices : \A j \in indices : i <= j
ParseEnded == parse.state \in {"returned", "raised"}

\* C14: for every multipart message with a text/plain part and a text/html
\* part not marked as attachments, the parser returns with both the text
\* body and the HTML body filled; a part marked as an attachment fills
\* neither body, and only parts marked as attachments are skipped.
C14_BothBodiesPopulated ==
    parse.msg.multipart =>
        /\ (/\ ParseEnded
            /\ BodyParts("text/plain") # {} /\ BodyParts("text/html") # {}) =>
                /\ parse.state = "returned"
                /\ parse.text_content.some /\ parse.html_content.some
        /\ parse.text_from # 0 => ~Marked(parse.msg.parts[parse.text_from])
        /\ parse.html_from # 0 => ~Marked(parse.msg.parts[parse.html_from])
        /\ \A i \in parse.skipped : Marked(parse.msg.parts[i])

\* C15: for every multipart message with two or more text/plain parts not
\* marked as attachments, the text body returned is the payload of the first
\* of them in document order, whatever it is, the empty one included; and
\* the same for text/html and the HTML body.
C15_FirstPartIsKept ==
    (parse.msg.multipart /\ parse.state = "returned") =>
        /\ Cardinality(BodyParts("text/plain")) >= 2 =>
              parse.text_content =
                Some(PartText(parse.msg.parts[First(BodyParts("text/plain"))]))
        /\ Cardinality(BodyParts("text/html")) >= 2 =>
              parse.html_content =
                Some(PartText(parse.msg.parts[First(BodyParts("text/html"))]))

\* C16: for every single-part text/plain message the parser returns, the
\* text body being the decoded payload and the HTML body absent; a single
\* part with an empty body is no error and leaves both absent.
C16_SinglePartPlainText ==
    (~parse.msg.multipart /\ ParseEnded) =>
        /\ parse.msg.parts[1].content_type = "text/plain" =>
            /\ parse.state = "returned"
            /\ parse.html_content = StrNone
            /\ parse.msg.parts[1].payload # <<>> =>
                  parse.text_content = Some(PartText(parse.msg.parts[1]))
        /\ parse.msg.parts[1].payload = <<>> =>
            /\ parse.state = "returned"
            /\ parse.text_content = StrNone /\ parse.html_content = StrNone

\* the smtplib calls a forward has made so far, and the steps of a forwarder
Called(step) == \E i \in 1..Len(fwd.wire) : fwd.wire[i] = step
RelaySteps == {"connect", "starttls", "login", "send", "close"}
Addresses(list) == {list[i] : i \in 1..Len(list)}

\* C17: a forward, whether it succeeds or fails, leaves the status store
\* unchanged: no smtplib call of a forwarder and no closing of the
\* connection changes it; the store changes only when the caller creates the
\* record before the forward and updates it after the forwarder is done.
C17_ForwardLeavesStoreAlone ==
    /\ [][fwd.pc \in RelaySteps =>
            email_status_store' = email_status_store]_vars
    /\ [][email_status_store' # email_status_store =>
            /\ fwd'.impl = "api"
            /\ \/ fwd.pc \in {"idle", "done"} /\ fwd'.pc = "connect"
               \/ fwd.pc = "return" /\ fwd'.pc = "done"
            /\ \A id \in DOMAIN email_status_store :
                  id # fwd'.message_id =>
                    email_status_store'[id] = email_status_store[id]]_vars
C17_Witness ==
    /\ fwd.impl = "api" /\ fwd.pc = "return"
    /\ Called("send") /\ Called("close") /\ fwd.exc # None
    /\ Status(fwd.message_id) = "sending"

\* C18: a message is forwarded with at most one connection attempt: once a
\* call on the relay has failed the forwarder makes no other call than
\* closing the connection, and a failure of the network (the relay cannot be
\* reached) and a rejection by the relay end in the same outcome: the
\* forwarder reports failure, and the record of a submission is failed.
C18_SingleAttempt ==
    /\ fwd.attempts <= 1
    /\ Cardinality({i \in 1..Len(fwd.wire) : fwd.wire[i] = "connect"}) <= 1
    /\ fwd.exc # None => fwd.pc \in {"close", "return", "done"}
    /\ (fwd.pc = "done" /\ fwd.attempts = 1
           /\ relay \in {"unreachable", "rejects"}) => fwd.exc # None
    /\ (fwd.pc = "done" /\ fwd.exc # None) =>
            /\ fwd.result = "failed"
            /\ fwd.impl = "api" => Status(fwd.message_id) = "failed"
    /\ (fwd.pc = "done" /\ fwd.result = "sent") =>
            fwd.exc = None /\ Called("send") /\ fwd.attempts = 1
C18_Witness ==
    /\ fwd.impl = "api" /\ fwd.pc = "done"
    /\ relay = "unreachable" /\ fwd.attempts = 1
    /\ fwd.result = "failed" /\ Status(fwd.message_id) = "failed"

\* C19: within one forward the calls come in the order connect, STARTTLS
\* upgrade, login, submission, close, each at most once; the message is
\* submitted only after a login when credentials are configured; in
\* STARTTLS mode the login comes only after the upgrade; and when the
\* forwarder is done the connection it opened is closed, whether a call
\* failed or not.
Rank(step) ==
    IF step = "connect" THEN 1 ELSE IF step = "starttls" THEN 2
    ELSE IF step = "login" THEN 3 ELSE IF step = "send" THEN 4 ELSE 5
StartTlsMode == fwd.use_tls /\ ~fwd.use_ssl
C20_EnvelopeIsToCcBcc ==
    Called("send") =>
        Addresses(fwd.rcpts) =
            Addresses(fwd.msg.to) \cup Addresses(fwd.msg.cc)
                \cup Addresses(fwd.msg.bcc)

\* C21: the relay connection has a connect/response timeout: a forward that
\* has begun to connect ends, as a failure when the relay never answers, and
\* its caller gets the outcome.
C21_ForwardTerminates == (fwd.pc = "connect") ~> (fwd.pc = "done")

\* C22: the submission returns to its caller the newly minted message
\* identifier with the initial status queued, and it returns before the
\* forward has finished: at the return the record of the message is not yet
\* sent or failed.
C22_ReturnsQueuedBeforeForward ==
    [][\A t \in Senders :
        (resp[t].code = 0 /\ resp'[t].code # 0) =>
            /\ resp'[t].code = 202
            /\ resp'[t].message_id = local[t].message_id
            /\ Known(email_status_store, resp'[t].message_id)
            /\ resp'[t].status = "queued"
            /\ Status(local[t].message_id) \notin {"sent", "failed"}]_vars

\* C23: a forward in progress for one request does not keep the task of
\* another request from making progress: while a handler waits on the relay
\* connection, the event loop can run a status query.
C23_ForwardDoesNotBlockOthers ==
    \A t \in Senders : pc[t] = "forward" => ENABLED GetCheck

\* C24: when TLS is enabled without certificate and key (the configuration
\* has no place for them), or authentication is enabled without a username
\* and a password, the start fails: the controller is never started and no
\* connection is ever accepted.
C24_MisconfiguredNeverStarts ==
    (\/ config.ENABLE_TLS
     \/ config.ENABLE_AUTH /\ ~(config.SMTP_USERNAME.some
                                  /\ config.SMTP_PASSWORD.some))
        => (controller = "none" /\ sess.conn = "none")

\* C25: once SMTPServer.start has returned, the controller is running and
\* accepts connections; it stays so until stop() is called, and the call of
\* stop() on the shutdown and error paths of run_servers succeeds.
C25_StartLeavesControllerRunning ==
    /\ mainpc = "serving" => controller = "running"
    /\ mainpc # "stop_raised"

\* C26: parsing the address headers never fails the message: whatever the
\* encoded words of To, Cc and Bcc, no address header makes handle_message
\* raise, and a message whose handling ends before the forward step was
\* stopped by its body, never by an address header.
C26_AddressHeadersNeverFail ==
    /\ hm.raised_at \notin {"To", "Cc", "Bcc"}
    /\ hm.pc = "raised" => hm.raised_at = "content"

\* what update_email_status(id, status, error, details) makes of a record:
\* the state, the updated timestamp, and the error and the details when the
\* argument is not empty; every other field is as it was
UpdateEffect(old, new) ==
    \E status \in UpdateStates, error \in ErrorArgs, details \in DetailsArgs :
        new = [old EXCEPT
                 !.status = status,
                 !.updated_at = clock,
                 !.error = IF TruthyStr(error) THEN error ELSE old.error,
                 !.details = IF TruthyDict(details) THEN details
                             ELSE old.details]

\* C27: update on a known id changes only that record's state, its updated
\* timestamp, and the error and details for which a non-empty argument was
\* passed; message_id, recipients, subject and created timestamp are kept,
\* an omitted or empty argument keeps the recorded value, every other record
\* is unchanged, and the updated timestamp never decreases.
C27_UpdateChangesOnlyItsRecord ==
    [][(/\ ncalls' = ncalls + 1
        /\ lastcall'.op = "update"
        /\ Known(email_status_store, lastcall'.id))
       => (/\ lastcall'.found
           /\ DOMAIN email_status_store' = DOMAIN email_status_store
           /\ \A j \in DOMAIN email_status_store :
                j # lastcall'.id =>
                    email_status_store'[j] = email_status_store[j]
           /\ UpdateEffect(email_status_store[lastcall'.id],
                           email_status_store'[lastcall'.id])
           /\ email_status_store'[lastcall'.id].updated_at >=
                email_status_store[lastcall'.id].updated_at)]_vars

\* ---------------------------------------------------------------------------
\* C28  With several submissions under way, a step of a request creates or
\* changes only the record of that request's own message id (and the store
\* changes only in a step of some request); distinct requests hold distinct
\* ids; and once a request has answered, its record is sent exactly when its
\* own forward raised nothing and failed, with the forward's error text,
\* exactly when it raised, whatever the other requests did.
C28_OwnRecordOnly(t) ==
    \A id \in DOMAIN email_status_store' :
        id # local'[t].message_id =>
            /\ id \in DOMAIN email_status_store
            /\ email_status_store'[id] = email_status_store[id]
C28_StepKeepsOthers ==
    /\ \A t \in Senders : pc'[t] # pc[t] => C28_OwnRecordOnly(t)
    /\ email_status_store' # email_status_store =>
           \E t \in Senders : pc'[t] # pc[t]
    /\ \A t, u \in Senders :
           (t # u /\ local'[t].message_id # 0 /\ local'[u].message_id # 0)
               => local'[t].message_id # local'[u].message_id
    /\ \A t \in Senders :
           (pc'[t] = "idle" /\ resp'[t].code # 0) =>
               /\ Known(email_status_store', local'[t].message_id)
               /\ email_status_store'[local'[t].message_id].to = req'[t].to
               /\ email_status_store'[local'[t].message_id].status =
                      (IF local'[t].exc = None THEN "sent" ELSE "failed")
               /\ local'[t].exc # None =>
                      email_status_store'[local'[t].message_id].error
                          = local'[t].exc
C28_RequestsTouchOwnRecord == [][C28_StepKeepsOthers]_vars

\* two requests answered, the first failed and the second sent, each record
\* carrying its own request's outcome
C28_Witness ==
    /\ Finished(1) /\ Finished(2)
    /\ local[1].message_id # local[2].message_id
    /\ local[1].exc # None /\ local[2].exc = None
    /\ Status(local[1].message_id) = "failed"
    /\ Status(local[2].message_id) = "sent"
    /\ email_status_store[local[1].message_id].error = local[1].exc

\* ---------------------------------------------------------------------------
\* C29  The Authenticator is total and free of side effects: whatever the
\* auth_data (any mechanism's object, any login and password bytes, those
\* that are not UTF-8 included) and whatever the configured pair (unset
\* included), the call returns a result and raises nothing, and it changes
\* neither the session nor the configured credentials.
C29_AuthenticatorTotalAndPure ==
    /\ [](authcall.called =>
            /\ ~authcall.result.raised
            /\ authcall.result.success \in BOOLEAN
            /\ authcall.result.handled \in BOOLEAN)
    /\ [][(~authcall.called /\ authcall'.called) =>
            /\ sess' = sess
            /\ config' = config]_vars

\* ---------------------------------------------------------------------------
\* C30  utils.send_email always returns a boolean and lets no exception out;
\* it returns True exactly when the connect, the STARTTLS it was asked for,
\* the login it has credentials for and the submission all completed
\* without an error; and with no To, Cc or Bcc recipient it returns False
\* with no connection opened.
C30_Called(f, step) == \E i \in 1..Len(f.wire) : f.wire[i] = step
C30_AllCompleted(f) ==
    /\ f.exc = None
    /\ C30_Called(f, "connect")
    /\ (f.use_tls /\ ~f.use_ssl) => C30_Called(f, "starttls")
    /\ f.creds => C30_Called(f, "login")
    /\ C30_Called(f, "send")
C30_NoRecipient(f) == f.msg.to = <<>> /\ f.msg.cc = <<>> /\ f.msg.bcc = <<>>
C30_ReturnsTrueIffAllCompleted ==
    (fwd.impl = "utils" /\ fwd.pc = "done") =>
        /\ fwd.result \in {"sent", "failed"}
        /\ fwd.result = "sent" <=> C30_AllCompleted(fwd)
        /\ fwd.result = "sent" <=>
              /\ ~C30_NoRecipient(fwd)
              /\ \/ relay = "accepts"
                 \/ relay = "auth_fails" /\ ~fwd.creds
        /\ C30_NoRecipient(fwd) =>
              /\ fwd.result = "failed"
              /\ fwd.wire = <<>> /\ fwd.attempts = 0 /\ ~fwd.open
C30_SendEmailReturnsBool ==
    /\ C30_ReturnsTrueIffAllCompleted
    /\ fwd.impl = "utils" => fwd.pc # "raised"

=============================================================================
